---- MODULE Spec2Model ----
(***************************************************************************)
(* Model of three pieces of the fyne toolkit:                              *)
(*   - dialog (dialog/base.go): the base modal dialog, its callback chain  *)
(*     and its overlay;                                                    *)
(*   - dialogLayout: the arrangement of the five children of a dialog;     *)
(*   - Packager.packageGopherJS: the packaging routine for the web target. *)
(* Each piece has its own specification: Spec (dialog), LayoutSpec and     *)
(* PackageSpec.  The variables of the other pieces stay at their idle      *)
(* value.                                                                  *)
(***************************************************************************)
EXTENDS Integers, Sequences, FiniteSets, TLC

VARIABLES
    \* ---- dialog ----
    callback,       \* d.callback: Nil, a func(bool), or a closure built by SetOnClosed
    desiredSize,    \* d.desiredSize
    winVisible,     \* d.win is shown
    winSize,        \* size last applied to d.win
    dismissText,    \* d.dismiss.Text
    lastOp,         \* name of the last operation called on the dialog
    winLog,         \* calls made on d.win by the last operation, in order
    calls,          \* responses d.callback was invoked with by the last operation
    fired,          \* user functions run by the last operation, in order
    ctorCallback,   \* history: callback handed to newDialog (Nil when none)
    closedFns,      \* history: arguments of SetOnClosed, in call order
    lastResize,     \* history: argument of the last Resize (zero size when none)
    hidesSinceShow, \* history: Hide() calls since the last Show() (or construction)
    cbSinceShow,    \* history: invocations of d.callback since the last Show()
    everShown,      \* history: Show() was called at least once
    \* ---- dialogLayout ----
    objMin,         \* obj[i].MinSize() of the five children
    objPos,         \* obj[i].Position()
    objSize,        \* obj[i].Size()
    padding,        \* theme.Padding()
    layoutOp,       \* last call on the layout: "none", "Layout" or "MinSize"
    layoutSize,     \* history: size argument of the last Layout call
    minSizeResult,  \* history: value returned by the last MinSize call
    \* ---- packageGopherJS ----
    release,        \* p.release
    name,           \* p.name
    files,          \* content of each file of the gopherjs subdirectory
    pc,             \* position of the running packageGopherJS
    err,            \* the error returned: "nil", or the step that failed
    steps           \* history: the steps attempted so far, in order

dialogVars == <<callback, desiredSize, winVisible, winSize, dismissText, lastOp,
                winLog, calls, fired, ctorCallback, closedFns, lastResize,
                hidesSinceShow, cbSinceShow, everShown>>

layoutVars == <<objMin, objPos, objSize, padding, layoutOp, layoutSize,
                minSizeResult>>

packageVars == <<release, name, files, pc, err, steps>>

vars == <<dialogVars, layoutVars, packageVars>>

\* ---------------------------------------------------------------------------
\* Bounds
\* ---------------------------------------------------------------------------
MaxSide == 1        \* sizes handed to Resize have sides 0..MaxSide
MaxHandlers == 2    \* SetOnClosed is called at most this many times
MaxHides == 2       \* Hide() is called at most this many times between two Show()

\* ---------------------------------------------------------------------------
\* fyne.Size
\* ---------------------------------------------------------------------------
NewSize(w, h) == [Width |-> w, Height |-> h]
NewPos(x, y) == [X |-> x, Y |-> y]

IsZero(s) == s.Width = 0 /\ s.Height = 0

ZeroSize == NewSize(0, 0)

ResizeArgs == {NewSize(w, h) : w \in 0..MaxSide, h \in 0..MaxSide}

\* ---------------------------------------------------------------------------
\* dialog: the callback chain
\* ---------------------------------------------------------------------------
Nil == <<>>

\* a plain func(bool) value, named c
Func(c) == <<"func", c>>

\* the closure SetOnClosed stores: it captures closed and originalCallback
Closure(closed, original) == <<"closure", closed, original>>

ClosedHandlers == {"A", "B"}
CtorCallbacks == {Nil, Func("cb")}
DismissLabels == {"OK", "Close"}

\* Mutant of Invoke: the closure runs originalCallback before closed().
RECURSIVE Invoke_OriginalFirst(_, _)
Invoke_OriginalFirst(cb, resp) ==
    IF cb[1] = "func"
    THEN << <<cb[2], resp>> >>
    ELSE (IF cb[3] # Nil THEN Invoke_OriginalFirst(cb[3], resp) ELSE <<>>)
         \o << <<cb[2]>> >>

\* The user functions run, in order, by the call cb(resp) of a non-nil
\* callback.  A func(bool) runs with the response; the closure runs closed()
\* and then, when it is not nil, originalCallback(response).
RECURSIVE Invoke(_, _)
Invoke(cb, resp) ==
    IF cb[1] = "func"
    THEN << <<cb[2], resp>> >>
    ELSE << <<cb[2]>> >> \o (IF cb[3] # Nil THEN Invoke(cb[3], resp) ELSE <<>>)

\* ---------------------------------------------------------------------------
\* dialog: operations
\* ---------------------------------------------------------------------------
\* Mutant of hideWithResponse: the callback runs only when the overlay was
\* visible, so a second Hide() is silent.
hideWithResponse_OnlyIfVisible(resp) ==
    /\ winVisible' = FALSE
    /\ winLog' = << <<"Hide">> >>
    /\ IF callback # Nil /\ winVisible
       THEN /\ calls' = <<resp>>
            /\ fired' = Invoke(callback, resp)
            /\ cbSinceShow' = cbSinceShow + 1
       ELSE /\ calls' = <<>>
            /\ fired' = <<>>
            /\ cbSinceShow' = cbSinceShow

hideWithResponse(resp) ==
    /\ winVisible' = FALSE
    /\ winLog' = << <<"Hide">> >>
    /\ IF callback # Nil
       THEN /\ calls' = <<resp>>
            /\ fired' = Invoke(callback, resp)
            /\ cbSinceShow' = cbSinceShow + 1
       ELSE /\ calls' = <<>>
            /\ fired' = <<>>
            /\ cbSinceShow' = cbSinceShow

\* Mutant of Hide: the response handed on is true.
Hide_RespTrue ==
    /\ hidesSinceShow < MaxHides
    /\ hideWithResponse(TRUE)
    /\ lastOp' = "Hide"
    /\ hidesSinceShow' = hidesSinceShow + 1
    /\ UNCHANGED <<callback, desiredSize, winSize, dismissText, ctorCallback,
                   closedFns, lastResize, everShown>>
    /\ UNCHANGED <<layoutVars, packageVars>>

Hide ==
    /\ hidesSinceShow < MaxHides
    /\ hideWithResponse(FALSE)
    /\ lastOp' = "Hide"
    /\ hidesSinceShow' = hidesSinceShow + 1
    /\ UNCHANGED <<callback, desiredSize, winSize, dismissText, ctorCallback,
                   closedFns, lastResize, everShown>>
    /\ UNCHANGED <<layoutVars, packageVars>>

Show ==
    /\ IF ~IsZero(desiredSize)
       THEN /\ winSize' = desiredSize
            /\ winLog' = << <<"Resize", desiredSize>>, <<"Show">> >>
       ELSE /\ winSize' = winSize
            /\ winLog' = << <<"Show">> >>
    /\ winVisible' = TRUE
    /\ lastOp' = "Show"
    /\ calls' = <<>>
    /\ fired' = <<>>
    /\ hidesSinceShow' = 0
    /\ cbSinceShow' = 0
    /\ everShown' = TRUE
    /\ UNCHANGED <<callback, desiredSize, dismissText, ctorCallback, closedFns,
                   lastResize>>
    /\ UNCHANGED <<layoutVars, packageVars>>

Refresh ==
    /\ winLog' = << <<"Refresh">> >>
    /\ lastOp' = "Refresh"
    /\ calls' = <<>>
    /\ fired' = <<>>
    /\ UNCHANGED <<callback, desiredSize, winVisible, winSize, dismissText,
                   ctorCallback, closedFns, lastResize, hidesSinceShow,
                   cbSinceShow, everShown>>
    /\ UNCHANGED <<layoutVars, packageVars>>

\* Mutant of Resize: the size is applied and not recorded as desired size.
Resize_NotRecorded(size) ==
    /\ desiredSize' = desiredSize
    /\ winSize' = size
    /\ winLog' = << <<"Resize", size>> >>
    /\ lastOp' = "Resize"
    /\ calls' = <<>>
    /\ fired' = <<>>
    /\ lastResize' = size
    /\ UNCHANGED <<callback, winVisible, dismissText, ctorCallback, closedFns,
                   hidesSinceShow, cbSinceShow, everShown>>
    /\ UNCHANGED <<layoutVars, packageVars>>

Resize(size) ==
    /\ desiredSize' = size
    /\ winSize' = size
    /\ winLog' = << <<"Resize", size>> >>
    /\ lastOp' = "Resize"
    /\ calls' = <<>>
    /\ fired' = <<>>
    /\ lastResize' = size
    /\ UNCHANGED <<callback, winVisible, dismissText, ctorCallback, closedFns,
                   hidesSinceShow, cbSinceShow, everShown>>
    /\ UNCHANGED <<layoutVars, packageVars>>

SetDismissText(label) ==
    /\ dismissText' = label
    /\ winLog' = << <<"Refresh">> >>
    /\ lastOp' = "SetDismissText"
    /\ calls' = <<>>
    /\ fired' = <<>>
    /\ UNCHANGED <<callback, desiredSize, winVisible, winSize, ctorCallback,
                   closedFns, lastResize, hidesSinceShow, cbSinceShow, everShown>>
    /\ UNCHANGED <<layoutVars, packageVars>>

SetOnClosed(closed) ==
    /\ Len(closedFns) < MaxHandlers
    /\ LET originalCallback == callback
       IN  callback' = Closure(closed, originalCallback)
    /\ winLog' = <<>>
    /\ lastOp' = "SetOnClosed"
    /\ calls' = <<>>
    /\ fired' = <<>>
    /\ closedFns' = Append(closedFns, closed)
    /\ UNCHANGED <<desiredSize, winVisible, winSize, dismissText, ctorCallback,
                   lastResize, hidesSinceShow, cbSinceShow, everShown>>
    /\ UNCHANGED <<layoutVars, packageVars>>

\* newDialog followed by create: the dialog is built and not yet shown
newDialog(cb) ==
    /\ callback = cb
    /\ ctorCallback = cb
    /\ desiredSize = ZeroSize
    /\ winVisible = FALSE
    /\ dismissText \in DismissLabels
    /\ lastOp = "create"
    /\ winLog = << <<"Refresh">> >>
    /\ calls = <<>>
    /\ fired = <<>>
    /\ closedFns = <<>>
    /\ lastResize = ZeroSize
    /\ hidesSinceShow = 0
    /\ cbSinceShow = 0
    /\ everShown = FALSE

\* the dialog while another piece is exercised: built, untouched
DialogIdle ==
    /\ newDialog(Nil)
    /\ dismissText = "OK"
    /\ winSize = ZeroSize

\* ---------------------------------------------------------------------------
\* dialogLayout
\*
\* Lengths are float32 in the code and the layout halves two of them.  The
\* model counts lengths in half pixels, so that the half of a whole number of
\* pixels is exact: px(n) is n pixels.
\* ---------------------------------------------------------------------------
px(n) == n + n

Half(v) == v \div 2

padWidth == 32
padHeight == 16

\* index of each child in the container built by create
iconIdx == 0
bgIdx == 1
contentIdx == 2
buttonsIdx == 3
labelIdx == 4

Children == {iconIdx, bgIdx, contentIdx, buttonsIdx, labelIdx}

Max(a, b) == IF a > b THEN a ELSE b

\* Mutant of IconHeight: the theme padding is not subtracted.
IconHeight_NoPadding(labelMinHeight, pad) ==
    px(padHeight) * 2 + labelMinHeight * 2

IconHeight(labelMinHeight, pad) ==
    px(padHeight) * 2 + labelMinHeight * 2 - pad

\* Mutant of MinSize: the horizontal pad is left out of the width.
MinSize_NoPadWidth(min, pad) ==
    LET contentMin == min[contentIdx]
        btnMin == min[buttonsIdx]
        width == Max(Max(contentMin.Width, btnMin.Width), min[labelIdx].Width)
        height == contentMin.Height + btnMin.Height + min[labelIdx].Height
                  + pad + px(padHeight) * 2
    IN  NewSize(width, height)

\* Mutant of MinSize: the vertical pad is counted once, not twice.
MinSize_OnePadHeight(min, pad) ==
    LET contentMin == min[contentIdx]
        btnMin == min[buttonsIdx]
        width == Max(Max(contentMin.Width, btnMin.Width), min[labelIdx].Width)
                 + px(padWidth)
        height == contentMin.Height + btnMin.Height + min[labelIdx].Height
                  + pad + px(padHeight)
    IN  NewSize(width, height)

\* dialogLayout.MinSize, for children of minimum sizes min and theme padding pad
MinSize(min, pad) ==
    LET contentMin == min[contentIdx]
        btnMin == min[buttonsIdx]
        width == Max(Max(contentMin.Width, btnMin.Width), min[labelIdx].Width)
                 + px(padWidth)
        height == contentMin.Height + btnMin.Height + min[labelIdx].Height
                  + pad + px(padHeight) * 2
    IN  NewSize(width, height)

\* dialogLayout.Layout: the label is read and not moved
Layout(size) ==
    LET btnMin == objMin[buttonsIdx]
        labelMin == objMin[labelIdx]
        iconHeight == IconHeight(labelMin.Height, padding)
        btnPos == NewPos(Half(size.Width) - Half(btnMin.Width),
                         size.Height - px(padHeight) - btnMin.Height)
        contentStart == objPos[labelIdx].Y + labelMin.Height + px(padHeight)
        contentEnd == btnPos.Y - padding
    IN  /\ objPos' = [objPos EXCEPT
               ![bgIdx] = NewPos(0, 0),
               ![iconIdx] = NewPos(size.Width - iconHeight + padding, -padding),
               ![buttonsIdx] = btnPos,
               ![contentIdx] = NewPos(Half(px(padWidth)), labelMin.Height + px(padHeight))]
        /\ objSize' = [objSize EXCEPT
               ![bgIdx] = size,
               ![iconIdx] = NewSize(iconHeight, iconHeight),
               ![buttonsIdx] = btnMin,
               ![contentIdx] = NewSize(size.Width - px(padWidth), contentEnd - contentStart)]
        /\ layoutOp' = "Layout"
        /\ layoutSize' = size
        /\ UNCHANGED <<objMin, padding, minSizeResult>>
        /\ UNCHANGED <<dialogVars, packageVars>>

LayoutMinSize ==
    /\ minSizeResult' = MinSize(objMin, padding)
    /\ layoutOp' = "MinSize"
    /\ UNCHANGED <<objMin, objPos, objSize, padding, layoutSize>>
    /\ UNCHANGED <<dialogVars, packageVars>>

MaxMin == 1         \* minimum sizes of the children have sides 0..MaxMin pixels
MaxSlack == 1       \* the container is up to MaxSlack pixels off the minimum size

MinSizes == {NewSize(px(w), px(h)) : w \in 0..MaxMin, h \in 0..MaxMin}
ThemePaddings == {0, px(4)}
LabelYs == {0, px(3)}

\* container sizes handed to Layout: around the minimum size, and far below it
ContainerSizes ==
    LET m == MinSize(objMin, padding)
    IN  {NewSize(m.Width + px(dw), m.Height + px(dh)) :
             dw \in (0 - MaxSlack)..MaxSlack, dh \in (0 - MaxSlack)..MaxSlack}
        \cup {NewSize(px(w), px(h)) : w \in {0, 5}, h \in {0, 7}}

\* the children as create builds them: icon and background measure nothing,
\* nothing is laid out yet
LayoutInit ==
    /\ objMin \in [Children -> MinSizes]
    /\ objMin[iconIdx] = ZeroSize
    /\ objMin[bgIdx] = ZeroSize
    /\ padding \in ThemePaddings
    /\ \E y \in LabelYs : objPos = [i \in Children |->
                                       IF i = labelIdx THEN NewPos(0, y) ELSE NewPos(0, 0)]
    /\ objSize = [i \in Children |-> ZeroSize]
    /\ layoutOp = "none"
    /\ layoutSize = ZeroSize
    /\ minSizeResult = ZeroSize

LayoutIdle ==
    /\ objMin = [i \in Children |-> ZeroSize]
    /\ objPos = [i \in Children |-> NewPos(0, 0)]
    /\ objSize = [i \in Children |-> ZeroSize]
    /\ padding = px(4)
    /\ layoutOp = "none"
    /\ layoutSize = ZeroSize
    /\ minSizeResult = ZeroSize

\* ---------------------------------------------------------------------------
\* Packager.packageGopherJS
\* ---------------------------------------------------------------------------
\* File names of the gopherjs subdirectory: index.html, icon.png, the
\* executable under p.name and webgl-debug.js.  A file is "absent", "stale"
\* (left by an earlier run), "created" (created or truncated by this run and
\* still empty), "partial" (a write of this run broke off) or "written".
AppNames == {"app", "demo"}
FileNames == {"index.html", "icon.png", "webgl-debug.js"} \cup AppNames

\* the steps, in the order of the function body
FullOrder == <<"createIndex", "executeTemplate", "copyIcon", "copyExe",
               "httpGet", "createDebug", "copyBody">>

\* Mutant of AfterCopyExe: the debug script is fetched in release mode too.
AfterCopyExe_AlwaysFetch(rel) == "httpGet"

\* where control goes after the executable is copied: if !p.release
AfterCopyExe(rel) == IF ~rel THEN "httpGet" ELSE "return"

\* Mutant of Fail: the error is kept and the function does not return.
Fail_GoOn(step) ==
    /\ err' = step
    /\ pc' = pc

\* a step that failed: return err
Fail(step) ==
    /\ err' = step
    /\ pc' = "return"

\* appDir := util.EnsureSubDir(...); indexFile, err := os.Create(index)
CreateIndex ==
    /\ pc = "createIndex"
    /\ steps' = Append(steps, "createIndex")
    /\ \/ /\ files' = [files EXCEPT !["index.html"] = "created"]
          /\ pc' = "executeTemplate"
          /\ UNCHANGED err
       \/ /\ Fail("createIndex")
          /\ UNCHANGED files
    /\ UNCHANGED <<release, name>>
    /\ UNCHANGED <<dialogVars, layoutVars>>

\* err = templates.IndexHTML.Execute(indexFile, tplData)
ExecuteTemplate ==
    /\ pc = "executeTemplate"
    /\ steps' = Append(steps, "executeTemplate")
    /\ \/ /\ files' = [files EXCEPT !["index.html"] = "written"]
          /\ pc' = "copyIcon"
          /\ UNCHANGED err
       \/ /\ Fail("executeTemplate")
          /\ \E c \in {"created", "partial"} :
                 files' = [files EXCEPT !["index.html"] = c]
    /\ UNCHANGED <<release, name>>
    /\ UNCHANGED <<dialogVars, layoutVars>>

\* util.CopyFile(src, dst) as step `step`, going on at `next`: a failed copy
\* leaves dst as it was or partly written
CopyFile(step, dst, next) ==
    /\ pc = step
    /\ steps' = Append(steps, step)
    /\ \/ /\ files' = [files EXCEPT ![dst] = "written"]
          /\ pc' = next
          /\ UNCHANGED err
       \/ /\ Fail(step)
          /\ \E c \in {files[dst], "partial"} : files' = [files EXCEPT ![dst] = c]
    /\ UNCHANGED <<release, name>>
    /\ UNCHANGED <<dialogVars, layoutVars>>

\* err = util.CopyFile(p.icon, iconDst)
CopyIcon == CopyFile("copyIcon", "icon.png", "copyExe")

\* err = util.CopyFile(p.exe, exeDst); then the test of p.release
CopyExe == CopyFile("copyExe", name, AfterCopyExe(release))

\* r, err := http.Get(...)
HttpGet ==
    /\ pc = "httpGet"
    /\ steps' = Append(steps, "httpGet")
    /\ \/ /\ pc' = "createDebug"
          /\ UNCHANGED err
       \/ Fail("httpGet")
    /\ UNCHANGED <<release, name, files>>
    /\ UNCHANGED <<dialogVars, layoutVars>>

\* out, err := os.Create(webglDebugFile)
CreateDebug ==
    /\ pc = "createDebug"
    /\ steps' = Append(steps, "createDebug")
    /\ \/ /\ files' = [files EXCEPT !["webgl-debug.js"] = "created"]
          /\ pc' = "copyBody"
          /\ UNCHANGED err
       \/ /\ Fail("createDebug")
          /\ UNCHANGED files
    /\ UNCHANGED <<release, name>>
    /\ UNCHANGED <<dialogVars, layoutVars>>

\* _, err = io.Copy(out, r.Body); return err
CopyBody ==
    /\ pc = "copyBody"
    /\ steps' = Append(steps, "copyBody")
    /\ \/ /\ files' = [files EXCEPT !["webgl-debug.js"] = "written"]
          /\ pc' = "return"
          /\ UNCHANGED err
       \/ /\ Fail("copyBody")
          /\ \E c \in {"created", "partial"} :
                 files' = [files EXCEPT !["webgl-debug.js"] = c]
    /\ UNCHANGED <<release, name>>
    /\ UNCHANGED <<dialogVars, layoutVars>>

\* the function returns err to its caller
Return ==
    /\ pc = "return"
    /\ pc' = "done"
    /\ UNCHANGED <<release, name, files, err, steps>>
    /\ UNCHANGED <<dialogVars, layoutVars>>

\* packageGopherJS is entered: any packager, any earlier content of the
\* subdirectory
PackageInit ==
    /\ release \in BOOLEAN
    /\ name \in AppNames
    /\ files \in [FileNames -> {"absent", "stale"}]
    /\ pc = "createIndex"
    /\ err = "nil"
    /\ steps = <<>>

PackageIdle ==
    /\ release = FALSE
    /\ name = "app"
    /\ files = <<>>
    /\ pc = "idle"
    /\ err = "nil"
    /\ steps = <<>>

\* ---------------------------------------------------------------------------
\* Specifications
\* ---------------------------------------------------------------------------
Init ==
    /\ \E cb \in CtorCallbacks : newDialog(cb)
    /\ winSize \in ResizeArgs
    /\ LayoutIdle
    /\ PackageIdle

Next ==
    \/ Hide
    \/ Show
    \/ Refresh
    \/ \E size \in ResizeArgs : Resize(size)
    \/ \E label \in DismissLabels : SetDismissText(label)
    \/ \E closed \in ClosedHandlers : SetOnClosed(closed)

Spec == Init /\ [][Next]_vars

LayoutSpecInit ==
    /\ LayoutInit
    /\ DialogIdle
    /\ PackageIdle

LayoutNext ==
    \/ \E size \in ContainerSizes : Layout(size)
    \/ LayoutMinSize

LayoutSpec == LayoutSpecInit /\ [][LayoutNext]_vars

PackageSpecInit ==
    /\ PackageInit
    /\ DialogIdle
    /\ LayoutIdle

PackageNext ==
    \/ CreateIndex
    \/ ExecuteTemplate
    \/ CopyIcon
    \/ CopyExe
    \/ HttpGet
    \/ CreateDebug
    \/ CopyBody
    \/ Return

PackageSpec == PackageSpecInit /\ [][PackageNext]_vars

\* ---------------------------------------------------------------------------
\* Properties of the dialog (checked under Spec)
\* ---------------------------------------------------------------------------
Reverse(s) == [i \in 1..Len(s) |-> s[Len(s) + 1 - i]]

\* the run of closed() for each handler of the sequence hs, in that order
ClosedRuns(hs) == [i \in 1..Len(hs) |-> <<hs[i]>>]

\* the run of the constructor's callback with response resp, when there is one
CtorRun(resp) == IF ctorCallback # Nil THEN << <<ctorCallback[2], resp>> >> ELSE <<>>

\* C1: with a callback stored (by the constructor or by SetOnClosed), a call of
\* Hide() invokes it exactly once, with the response false, and leaves the
\* overlay invisible; with no callback stored, Hide() only hides the overlay
\* and runs no user function.
C1_HideInvokesCallbackOnce ==
    lastOp = "Hide" =>
        /\ ~winVisible
        /\ winLog = << <<"Hide">> >>
        /\ callback # Nil => calls = <<FALSE>>
        /\ callback = Nil => calls = <<>> /\ fired = <<>>
        /\ ctorCallback # Nil =>
               Len(SelectSeq(fired, LAMBDA e : e = <<ctorCallback[2], FALSE>>)) = 1

C1_Witness ==
    /\ lastOp = "Hide"
    /\ callback # Nil
    /\ closedFns # <<>>
    /\ calls = <<FALSE>>
    /\ ~winVisible

\* C2: a close runs every handler registered with SetOnClosed exactly once,
\* newest first, and the constructor's callback (if any) after all of them;
\* SetOnClosed itself runs no handler.
C2_HandlersNewestFirst ==
    /\ lastOp = "Hide" =>
           fired = ClosedRuns(Reverse(closedFns)) \o CtorRun(FALSE)
    /\ lastOp = "SetOnClosed" => fired = <<>> /\ calls = <<>>

C2_Witness ==
    /\ lastOp = "Hide"
    /\ closedFns = <<"A", "B">>
    /\ ctorCallback # Nil
    /\ fired = << <<"B">>, <<"A">>, <<"cb", FALSE>> >>

\* C3 as stated: the stored callback is invoked at most once between two
\* consecutive Show() calls, and never before the first Show().
C3_AtMostOncePerShow ==
    /\ cbSinceShow <= 1
    /\ ~everShown => cbSinceShow = 0

\* C3 as amended: every Hide() invokes the stored callback once when one is
\* stored, whether or not the dialog is visible or was ever shown: with a
\* callback stored since construction the invocations since the last Show()
\* (or since construction) are as many as the Hide() calls since then; with no
\* callback stored there are none.
C3_OncePerHide ==
    /\ ctorCallback # Nil => cbSinceShow = hidesSinceShow
    /\ callback = Nil => cbSinceShow = 0
    /\ cbSinceShow <= hidesSinceShow

C3_Witness ==
    /\ lastOp = "Hide"
    /\ everShown
    /\ ctorCallback # Nil
    /\ hidesSinceShow = 2
    /\ cbSinceShow = 2

\* C4: a Show() that follows Resize(s) with s non-zero applies s to the overlay
\* and then makes it visible, whatever Hide, SetDismissText or SetOnClosed
\* calls came in between; a Show() with a zero desired size applies no size.
C4_ShowAppliesDesiredSize ==
    lastOp = "Show" =>
        /\ winVisible
        /\ ~IsZero(lastResize) =>
               /\ winLog = << <<"Resize", lastResize>>, <<"Show">> >>
               /\ winSize = lastResize
        /\ IsZero(desiredSize) => winLog = << <<"Show">> >>

C4_Witness ==
    /\ lastOp = "Show"
    /\ ~IsZero(lastResize)
    /\ winSize = lastResize
    /\ winLog = << <<"Resize", lastResize>>, <<"Show">> >>
    /\ closedFns # <<>>
    /\ winVisible

\* ---------------------------------------------------------------------------
\* Properties of dialogLayout (checked under LayoutSpec)
\* ---------------------------------------------------------------------------
contentMinSize == objMin[contentIdx]
buttonsMinSize == objMin[buttonsIdx]
labelMinSize == objMin[labelIdx]

\* C5: MinSize returns the largest of the minimum widths of content, buttons
\* and label plus 32, and the sum of their minimum heights plus the theme
\* padding plus 2*16.
C5_MinSizeFormula ==
    layoutOp = "MinSize" =>
        LET widths == {contentMinSize.Width, buttonsMinSize.Width, labelMinSize.Width}
            w == minSizeResult.Width - px(32)
        IN  /\ w \in widths
            /\ \A v \in widths : v <= w
            /\ minSizeResult.Height =
                   contentMinSize.Height + buttonsMinSize.Height
                   + labelMinSize.Height + padding + 2 * px(16)

C5_Witness ==
    /\ layoutOp = "MinSize"
    /\ contentMinSize.Width < buttonsMinSize.Width
    /\ labelMinSize.Width < buttonsMinSize.Width
    /\ labelMinSize.Height > 0
    /\ padding > 0
    /\ minSizeResult.Width = buttonsMinSize.Width + px(32)

\* C6: Layout puts the background at (0,0) with the container's size; makes the
\* icon a square of side 2*16 + 2*(label min height) - padding, its right edge
\* at container width + padding and its top at -padding; gives the buttons
\* their minimum size, with equal room left and right of them and their bottom
\* edge 16 above the bottom of the container.
C6_BackgroundIconButtons ==
    layoutOp = "Layout" =>
        LET side == 2 * px(16) + 2 * labelMinSize.Height - padding
        IN  /\ objPos[bgIdx] = NewPos(0, 0)
            /\ objSize[bgIdx] = layoutSize
            /\ objSize[iconIdx] = NewSize(side, side)
            /\ objPos[iconIdx].X + objSize[iconIdx].Width = layoutSize.Width + padding
            /\ objPos[iconIdx].Y = 0 - padding
            /\ objSize[buttonsIdx] = buttonsMinSize
            /\ objPos[buttonsIdx].X =
                   layoutSize.Width - (objPos[buttonsIdx].X + objSize[buttonsIdx].Width)
            /\ objPos[buttonsIdx].Y + objSize[buttonsIdx].Height =
                   layoutSize.Height - px(16)

C6_Witness ==
    /\ layoutOp = "Layout"
    /\ layoutSize = NewSize(px(5), px(7))
    /\ labelMinSize.Height > 0
    /\ buttonsMinSize.Width > 0
    /\ padding > 0
    /\ objPos[labelIdx].Y > 0
    /\ objSize[bgIdx] = layoutSize

C10_MinSizeSufficient ==
    LET m == MinSize(objMin, padding)
    IN  (/\ layoutOp = "Layout"
         /\ layoutSize.Width >= m.Width
         /\ layoutSize.Height >= m.Height
         /\ objPos[labelIdx].Y = 0)
        =>
        /\ objSize[contentIdx].Width >= contentMinSize.Width
        /\ objSize[contentIdx].Height >= contentMinSize.Height
        /\ objPos[buttonsIdx].X >= 0
        /\ objPos[buttonsIdx].X + objSize[buttonsIdx].Width <= layoutSize.Width
        /\ objPos[contentIdx].Y + objSize[contentIdx].Height <= objPos[buttonsIdx].Y

C10_Witness ==
    /\ layoutOp = "Layout"
    /\ layoutSize = MinSize(objMin, padding)
    /\ objPos[labelIdx].Y = 0
    /\ contentMinSize.Width > 0
    /\ contentMinSize.Height > 0
    /\ buttonsMinSize.Width > contentMinSize.Width - 1
    /\ objSize[contentIdx].Height = contentMinSize.Height

\* ---------------------------------------------------------------------------
\* Properties of packageGopherJS (checked under PackageSpec)
\* ---------------------------------------------------------------------------
IsPrefix(s, t) == Len(s) <= Len(t) /\ \A i \in 1..Len(s) : s[i] = t[i]

\* the steps a run without failure goes through
StepsOf(rel) == IF rel THEN SubSeq(FullOrder, 1, 4) ELSE FullOrder

returned == pc \in {"return", "done"}

\* C7: the steps run in the order index.html (create, template), icon,
\* executable, then in non-release mode the debug script (fetch, create,
\* write), each at most once; a step that fails is the last one attempted and
\* the function returns its error; a return without error went through all
\* the steps.
C7_OrderAndAbort ==
    /\ IsPrefix(steps, StepsOf(release))
    /\ err # "nil" => returned /\ steps # <<>> /\ steps[Len(steps)] = err
    /\ (returned /\ err = "nil") => steps = StepsOf(release)

C7_Witness ==
    /\ pc = "done"
    /\ err = "copyIcon"
    /\ steps = <<"createIndex", "executeTemplate", "copyIcon">>
    /\ ~release
    /\ files[name] # "written"

====
